---- MODULE Spec2Model ----
(***************************************************************************)
(* Model of setup.py of sb-pyorbbecsdk: the build_ext command that copies  *)
(* the prebuilt library tree (CustomBuildExt) and the bdist_wheel command  *)
(* that chooses the platform tag (PlatformSpecificWheel).                  *)
(*                                                                         *)
(* A file name is the sequence of its dot-separated segments               *)
(* ("libob.so.1" is <<"libob","so","1">>), a path is a sequence of names   *)
(* starting at the filesystem root, and the filesystem is a function from  *)
(* the paths that exist to their entries.                                  *)
(***************************************************************************)
EXTENDS Integers, Sequences, FiniteSets, TLC

VARIABLES
    fs,          \* the filesystem: path -> [kind, mode, data, target]
    pc,          \* where CustomBuildExt.run is: start, copy, fix, chmod, done, raised
    err,         \* the exception that ended the run, "" when none
    stack,       \* the calls of copy_all_files in progress, innermost first
    todo,        \* the files of os.walk that _fix_file_permissions still has to chmod
    preexisting, \* what the run found at the destination when it started
    host,        \* what get_tag reads from the host: system, machine, ldd's answer, libc
    tpc,         \* where get_tag is: start, table, fallback, done, raised
    path,        \* the return statement get_tag took
    tag          \* the platform tag get_tag returned

vars == <<fs, pc, err, stack, todo, preexisting, host, tpc, path, tag>>
pkgVars == <<fs, pc, err, stack, todo, preexisting>>
tagVars == <<host, tpc, path, tag>>

(* ----------------------------- bounds --------------------------------- *)

\* symbolic links followed while resolving one path before giving up
MaxHops == 3

(* --------------------------- names and paths -------------------------- *)

DotDot == <<"..">>
SoReal == <<"libob", "so", "1">>
SoLink == <<"libob", "so">>
Sub == <<"sub">>
ExtSo == <<"ext", "so">>
Stale == <<"stale">>

lib_dir == <<<<"install">>, <<"lib">>>>
extdir == <<<<"build">>, <<"lib">>>>
Usr == <<<<"usr">>>>
UsrFile == <<<<"usr">>, <<"f">>>>
UsrGone == <<<<"usr">>, <<"gone">>>>

NoTarget == [abs |-> FALSE, comps |-> <<>>]
DirEntry == [kind |-> "dir", mode |-> 493, data |-> "", target |-> NoTarget]
FileEntry(m, d) == [kind |-> "file", mode |-> m, data |-> d, target |-> NoTarget]
LinkEntry(a, c) == [kind |-> "link", mode |-> 511, data |-> "", target |-> [abs |-> a, comps |-> c]]

dirname(p) == IF p = <<>> THEN <<>> ELSE SubSeq(p, 1, Len(p) - 1)
basename(p) == p[Len(p)]
IsPrefix(a, b) == Len(a) <= Len(b) /\ SubSeq(b, 1, Len(a)) = a
Under(f, root) == {p \in DOMAIN f : IsPrefix(root, p) /\ p # root}

\* os.path.normpath on an absolute path: ".." is collapsed lexically
RECURSIVE NormFrom(_, _)
NormFrom(acc, rest) ==
    IF rest = <<>> THEN acc
    ELSE IF Head(rest) = DotDot THEN NormFrom(dirname(acc), Tail(rest))
    ELSE NormFrom(Append(acc, Head(rest)), Tail(rest))

normpath(p) == NormFrom(<<>>, p)

RECURSIVE CommonLen(_, _)
CommonLen(a, b) ==
    IF a = <<>> \/ b = <<>> \/ Head(a) # Head(b) THEN 0
    ELSE 1 + CommonLen(Tail(a), Tail(b))

\* os.path.relpath(p, start) for absolute p and start: the link text
relpath(p, start) ==
    LET s == normpath(start)
        t == normpath(p)
        i == CommonLen(s, t)
    IN [abs |-> FALSE,
        comps |-> [k \in 1..(Len(s) - i) |-> DotDot] \o SubSeq(t, i + 1, Len(t))]

(* ------------------------- filesystem queries ------------------------- *)

\* Path resolution as the kernel does it: cur is a real directory, rest the
\* components still to walk, fuel the symbolic links that may still be followed.
RECURSIVE Walk(_, _, _, _)
Walk(f, cur, rest, fuel) ==
    IF rest = <<>> THEN [ok |-> TRUE, path |-> cur]
    ELSE IF Head(rest) = DotDot THEN Walk(f, dirname(cur), Tail(rest), fuel)
    ELSE LET p == Append(cur, Head(rest)) IN
         IF p \notin DOMAIN f THEN [ok |-> FALSE, path |-> p]
         ELSE IF f[p].kind = "link" THEN
              IF fuel = 0 THEN [ok |-> FALSE, path |-> p]
              ELSE Walk(f, IF f[p].target.abs THEN <<>> ELSE cur,
                        f[p].target.comps \o Tail(rest), fuel - 1)
         ELSE IF f[p].kind = "dir" THEN Walk(f, p, Tail(rest), fuel)
         ELSE [ok |-> Tail(rest) = <<>>, path |-> p]

Resolve(f, p) == Walk(f, <<>>, p, MaxHops)

exists(f, p) == Resolve(f, p).ok
islink(f, p) == p \in DOMAIN f /\ f[p].kind = "link"
isdir(f, p) == Resolve(f, p).ok /\ f[Resolve(f, p).path].kind = "dir"
lexists(f, p) == p \in DOMAIN f
listdir(f, d) == {basename(p) : p \in {q \in DOMAIN f : q # <<>> /\ dirname(q) = d}}

(* ------------------------ filesystem updates -------------------------- *)

Put(f, p, e) == [q \in DOMAIN f \cup {p} |-> IF q = p THEN e ELSE f[q]]
Remove(f, gone) == [q \in DOMAIN f \ gone |-> f[q]]

\* os.makedirs(p, exist_ok=True): every missing ancestor and p itself
makedirs(f, p) ==
    [q \in DOMAIN f \cup {SubSeq(p, 1, n) : n \in 0..Len(p)} |->
        IF q \in DOMAIN f THEN f[q] ELSE DirEntry]

unlink(f, p) == Remove(f, {p})
rmtree(f, p) == Remove(f, {q \in DOMAIN f : IsPrefix(p, q)})

\* shutil.copy2: contents and mode of the source file. In the trees of PkgInit the
\* destination path of a regular file is never taken before the copy.
copy2(f, s, d) == Put(f, d, FileEntry(f[Resolve(f, s).path].mode, f[Resolve(f, s).path].data))

\* a | b on permission bits
RECURSIVE BitOr(_, _)
BitOr(a, b) ==
    IF a = 0 THEN b
    ELSE IF b = 0 THEN a
    ELSE (IF a % 2 = 1 \/ b % 2 = 1 THEN 1 ELSE 0) + 2 * BitOr(a \div 2, b \div 2)

chmod(f, p, m) == [f EXCEPT ![Resolve(f, p).path].mode = m]

(* ------------------------- CustomBuildExt ----------------------------- *)

\* the name tests of _fix_file_permissions: endswith(('.so', '.dylib')) or '.so.' in file
IsSharedLib(name) ==
    \/ Len(name) >= 2 /\ name[Len(name)] \in {"so", "dylib"}
    \/ \E i \in 2..(Len(name) - 1) : name[i] = "so"

Frame(f, s, d) == [src |-> s, dst |-> d, items |-> listdir(f, s)]

\* a call of copy_all_files whose loop has no item left returns to its caller
RECURSIVE Unwind(_)
Unwind(stk) ==
    IF stk # <<>> /\ Head(stk).items = {} THEN Unwind(Tail(stk)) ELSE stk

Rest(stk, item) == <<[Head(stk) EXCEPT !.items = @ \ {item}]>> \o Tail(stk)

Raised(f, e) == [fs |-> f, err |-> e]
Fine(f) == [fs |-> f, err |-> ""]

\* os.symlink(target, p)
symlink(f, target, p) ==
    IF lexists(f, p) THEN Raised(f, "FileExistsError") ELSE Fine(Put(f, p, [LinkEntry(FALSE, <<>>) EXCEPT !.target = target]))

\* the removal of a pre-existing destination entry, lines 92-96
RemoveExisting(f, destination_path) ==
    IF exists(f, destination_path)
    THEN IF islink(f, destination_path) THEN Fine(unlink(f, destination_path))
         ELSE IF f[destination_path].kind = "dir" THEN Fine(rmtree(f, destination_path))
         ELSE Raised(f, "NotADirectoryError")
    ELSE Fine(f)

\* the text of the link copy_all_files tries first, line 101
rel_target(link_target, destination_path) ==
    relpath(link_target, dirname(destination_path))

\* the symbolic-link branch of copy_all_files, lines 84-107
CopyLink(f, source_path, destination_path) ==
    LET t == f[source_path].target
        link_target == IF t.abs THEN t.comps ELSE dirname(source_path) \o t.comps
        cleared == RemoveExisting(f, destination_path)
        first == symlink(cleared.fs, rel_target(link_target, destination_path), destination_path)
        second == symlink(cleared.fs, [abs |-> TRUE, comps |-> link_target], destination_path)
    IN IF cleared.err # "" THEN cleared
       ELSE IF first.err = "" THEN first
       ELSE second

\* the two checks that open build_extension, lines 51-62
SourceMissing(f) == ~isdir(f, lib_dir) \/ Under(f, lib_dir) = {}

\* build_extension creating extdir before it looks at lib_dir
BuildExtensionEnterMkdirFirst(f) ==
    IF SourceMissing(f) THEN [fs |-> makedirs(f, extdir), err |-> "FileNotFoundError", stack |-> <<>>]
    ELSE [fs |-> makedirs(f, extdir), err |-> "", stack |-> Unwind(<<Frame(f, lib_dir, extdir)>>)]

\* build_extension up to the first iteration of copy_all_files' loop, lines 48-80
BuildExtensionEnter(f) ==
    IF SourceMissing(f) THEN [fs |-> f, err |-> "FileNotFoundError", stack |-> <<>>]
    ELSE [fs |-> makedirs(f, extdir), err |-> "", stack |-> Unwind(<<Frame(f, lib_dir, extdir)>>)]

\* the recursive call without the os.makedirs that opens copy_all_files
CopyDirEnterNoMkdir(f, stk, item) ==
    LET source_path == Append(Head(stk).src, item)
        destination_path == Append(Head(stk).dst, item)
    IN [fs |-> f,
        stack |-> Unwind(<<Frame(f, source_path, destination_path)>> \o Rest(stk, item))]

\* the recursive call of copy_all_files on a directory, lines 109-111 and 78-80
CopyDirEnter(f, stk, item) ==
    LET source_path == Append(Head(stk).src, item)
        destination_path == Append(Head(stk).dst, item)
    IN [fs |-> makedirs(f, destination_path),
        stack |-> Unwind(<<Frame(f, source_path, destination_path)>> \o Rest(stk, item))]

\* the files os.walk(extdir) yields whose names _fix_file_permissions matches
WalkFiles(f) == {p \in Under(f, extdir) : ~isdir(f, p) /\ IsSharedLib(basename(p))}

\* the mode _fix_file_permissions gives a matching file, line 127
FixedMode(m) == BitOr(m, 493)

AfterCopy(stk) == IF stk = <<>> THEN "fix" ELSE "copy"

BuildExtension ==
    /\ pc = "start"
    /\ LET r == BuildExtensionEnter(fs) IN
         /\ fs' = r.fs
         /\ err' = r.err
         /\ stack' = r.stack
         /\ pc' = IF r.err # "" THEN "raised" ELSE AfterCopy(r.stack)
    /\ UNCHANGED <<todo, preexisting, tagVars>>

CopySymlink ==
    /\ pc = "copy"
    /\ \E item \in Head(stack).items :
        LET source_path == Append(Head(stack).src, item)
            destination_path == Append(Head(stack).dst, item)
            r == CopyLink(fs, source_path, destination_path)
        IN /\ islink(fs, source_path)
           /\ fs' = r.fs
           /\ err' = r.err
           /\ stack' = IF r.err # "" THEN stack ELSE Unwind(Rest(stack, item))
           /\ pc' = IF r.err # "" THEN "raised" ELSE AfterCopy(stack')
    /\ UNCHANGED <<todo, preexisting, tagVars>>

CopyDirectory ==
    /\ pc = "copy"
    /\ \E item \in Head(stack).items :
        LET source_path == Append(Head(stack).src, item)
            r == CopyDirEnter(fs, stack, item)
        IN /\ ~islink(fs, source_path)
           /\ isdir(fs, source_path)
           /\ fs' = r.fs
           /\ stack' = r.stack
           /\ pc' = AfterCopy(r.stack)
    /\ UNCHANGED <<err, todo, preexisting, tagVars>>

CopyFile ==
    /\ pc = "copy"
    /\ \E item \in Head(stack).items :
        LET source_path == Append(Head(stack).src, item)
            destination_path == Append(Head(stack).dst, item)
        IN /\ ~islink(fs, source_path)
           /\ ~isdir(fs, source_path)
           /\ fs' = copy2(fs, source_path, destination_path)
           /\ stack' = Unwind(Rest(stack, item))
           /\ pc' = AfterCopy(stack')
    /\ UNCHANGED <<err, todo, preexisting, tagVars>>

\* _fix_file_permissions: the walk of extdir, lines 119-126
FixWalk ==
    /\ pc = "fix"
    /\ todo' = WalkFiles(fs)
    /\ pc' = IF todo' = {} THEN "done" ELSE "chmod"
    /\ UNCHANGED <<fs, err, stack, preexisting, tagVars>>

\* _fix_file_permissions: one os.chmod(filepath, os.stat(filepath).st_mode | 0o755)
FixChmod ==
    /\ pc = "chmod"
    /\ \E filepath \in todo :
        IF exists(fs, filepath)
        THEN /\ fs' = chmod(fs, filepath, FixedMode(fs[Resolve(fs, filepath).path].mode))
             /\ todo' = todo \ {filepath}
             /\ pc' = IF todo' = {} THEN "done" ELSE "chmod"
             /\ err' = err
        ELSE /\ err' = "FileNotFoundError"
             /\ pc' = "raised"
             /\ UNCHANGED <<fs, todo>>
    /\ UNCHANGED <<stack, preexisting, tagVars>>

(* --------------------------- initial trees ---------------------------- *)

Modes == {420, 384, 493}

MkFs(pairs) == [p \in {x[1] : x \in pairs} |-> (CHOOSE x \in pairs : x[1] = p)[2]]

Skeleton == {<<<<>>, DirEntry>>, <<<<<<"install">>>>, DirEntry>>, <<<<<<"build">>>>, DirEntry>>,
             <<Usr, DirEntry>>, <<UsrFile, FileEntry(420, "usr")>>}

At(root, names) == root \o names

RealChoices == {{}} \cup {{<<At(lib_dir, <<SoReal>>), FileEntry(m, "lib")>>} : m \in Modes}

LinkChoices ==
    {{}} \cup {{<<At(lib_dir, <<SoLink>>), LinkEntry(t[1], t[2])>>} :
                 t \in {<<FALSE, <<SoReal>>>>, <<TRUE, At(lib_dir, <<SoReal>>)>>,
                        <<FALSE, <<Sub>>>>, <<TRUE, UsrFile>>}}

SubChoices ==
    {{}, {<<At(lib_dir, <<Sub>>), DirEntry>>}}
    \cup {{<<At(lib_dir, <<Sub>>), DirEntry>>, <<At(lib_dir, <<Sub, ExtSo>>), FileEntry(m, "ext")>>} : m \in Modes}
    \cup {{<<At(lib_dir, <<Sub>>), DirEntry>>, <<At(lib_dir, <<Sub, ExtSo>>), LinkEntry(FALSE, <<DotDot, SoReal>>)>>}}

SourceChoices ==
    {{}, {<<lib_dir, DirEntry>>}}
    \cup {{<<lib_dir, DirEntry>>} \cup r \cup l \cup s :
            r \in RealChoices, l \in LinkChoices, s \in SubChoices}

PreKinds == {"absent", "empty", "link_to_file", "link_to_dir", "dangling_link", "directory", "file"}

PreEntries(k) ==
    IF k = "absent" THEN {}
    ELSE {<<extdir, DirEntry>>} \cup
         CASE k = "empty" -> {}
           [] k = "link_to_file" -> {<<At(extdir, <<SoLink>>), LinkEntry(TRUE, UsrFile)>>}
           [] k = "link_to_dir" -> {<<At(extdir, <<SoLink>>), LinkEntry(TRUE, Usr)>>}
           [] k = "dangling_link" -> {<<At(extdir, <<SoLink>>), LinkEntry(TRUE, UsrGone)>>}
           [] k = "directory" -> {<<At(extdir, <<SoLink>>), DirEntry>>,
                                  <<At(extdir, <<SoLink, Stale>>), FileEntry(420, "old")>>}
           [] k = "file" -> {<<At(extdir, <<SoLink>>), FileEntry(420, "old")>>}

NoHost == [system |-> "", machine |-> "", plat |-> "", ldd |-> "", marker |-> "",
           version |-> <<>>, libc |-> FALSE]

PkgInit ==
    /\ \E src \in SourceChoices, k \in PreKinds :
          /\ fs = MkFs(Skeleton \cup src \cup PreEntries(k))
          /\ preexisting = k
    /\ pc = "start"
    /\ err = ""
    /\ stack = <<>>
    /\ todo = {}
    /\ host = NoHost
    /\ tpc = "idle"
    /\ path = ""
    /\ tag = ""

PkgNext == BuildExtension \/ CopySymlink \/ CopyDirectory \/ CopyFile \/ FixWalk \/ FixChmod

Spec == PkgInit /\ [][PkgNext]_vars

(* ----------------------- PlatformSpecificWheel ------------------------ *)

\* Text is a sequence of character codes: "." is 46, the digits "0".."9" are 48..57.
Dot == 46
Zero == 48

RECURSIVE Digits(_)
Digits(n) == IF n < 10 THEN <<Zero + n>> ELSE Append(Digits(n \div 10), Zero + (n % 10))

VersionText(major, minor) == Digits(major) \o <<Dot>> \o Digits(minor)

\* Python's str comparison: code point by code point, a proper prefix is smaller
RECURSIVE StrLess(_, _)
StrLess(a, b) ==
    IF b = <<>> THEN FALSE
    ELSE IF a = <<>> THEN TRUE
    ELSE IF Head(a) # Head(b) THEN Head(a) < Head(b)
    ELSE StrLess(Tail(a), Tail(b))

\* glibc_version >= literal, lines 184-190
VersionAtLeast(glibc_version, literal) == ~StrLess(glibc_version, literal)

\* the if/elif chain of _get_linux_platform_tag, lines 184-193
LinuxTableTag(glibc_version) ==
    IF VersionAtLeast(glibc_version, <<50, 46, 51, 53>>) THEN "manylinux_2_35_x86_64"
    ELSE IF VersionAtLeast(glibc_version, <<50, 46, 51, 52>>) THEN "manylinux_2_34_x86_64"
    ELSE IF VersionAtLeast(glibc_version, <<50, 46, 51, 49>>) THEN "manylinux_2_31_x86_64"
    ELSE IF VersionAtLeast(glibc_version, <<50, 46, 49, 55>>) THEN "manylinux_2_17_x86_64"
    ELSE "manylinux_2_12_x86_64"

\* the exceptions of subprocess.run that line 194 catches
LddCaught == {"FileNotFoundError", "SubprocessError"}

\* line 175 and the regular expression of line 178 on the linker's output
LddParsed(h) == h.ldd = "ok" /\ h.marker \in {"glibc", "GLIBC"} /\ h.version # <<>>

\* _get_macos_platform_tag, lines 210-217
get_macos_platform_tag(h) ==
    IF h.machine = "arm64" THEN "macosx_11_0_arm64" ELSE "macosx_10_15_x86_64"

\* _get_windows_platform_tag, lines 219-224: 'amd64' in plat or 'x64' in plat
get_windows_platform_tag(h) ==
    IF h.plat \in {"win_amd64"} THEN "win_amd64" ELSE "win32"

\* the tag bdist_wheel's own get_tag proposes for the host
DefaultPlat(system, machine) ==
    CASE system = "linux" -> IF machine = "x86_64" THEN "linux_x86_64" ELSE "linux_aarch64"
      [] system = "darwin" -> IF machine = "arm64" THEN "macosx_11_0_arm64" ELSE "macosx_10_9_x86_64"
      [] system = "windows" -> IF machine = "amd64" THEN "win_amd64" ELSE "win32"
      [] OTHER -> "plan9_x86_64"

\* subprocess.run(['ldd', '--version']) and the tests on its output, lines 166-179 and 194
LinuxLdd ==
    /\ tpc = "start"
    /\ host.system = "linux"
    /\ tpc' = IF host.ldd = "ok" THEN (IF LddParsed(host) THEN "table" ELSE "fallback")
              ELSE IF host.ldd \in LddCaught THEN "fallback"
              ELSE "raised"
    /\ UNCHANGED <<host, path, tag, pkgVars>>

\* the threshold table, lines 180-193
LinuxTable ==
    /\ tpc = "table"
    /\ tag' = LinuxTableTag(host.version)
    /\ path' = "table"
    /\ tpc' = "done"
    /\ UNCHANGED <<host, pkgVars>>

\* the filesystem heuristic and the default, lines 197-208
LinuxFallback ==
    /\ tpc = "fallback"
    /\ tag' = "manylinux_2_34_x86_64"
    /\ path' = IF host.libc THEN "heuristic" ELSE "default"
    /\ tpc' = "done"
    /\ UNCHANGED <<host, pkgVars>>

\* get_tag on macOS, lines 154-156
GetTagDarwin ==
    /\ tpc = "start"
    /\ host.system = "darwin"
    /\ tag' = get_macos_platform_tag(host)
    /\ path' = "darwin"
    /\ tpc' = "done"
    /\ UNCHANGED <<host, pkgVars>>

\* get_tag on Windows, lines 157-159
GetTagWindows ==
    /\ tpc = "start"
    /\ host.system = "windows"
    /\ tag' = get_windows_platform_tag(host)
    /\ path' = "windows"
    /\ tpc' = "done"
    /\ UNCHANGED <<host, pkgVars>>

\* get_tag on any other system: plat is returned as bdist_wheel computed it, line 161
GetTagOther ==
    /\ tpc = "start"
    /\ host.system \notin {"linux", "darwin", "windows"}
    /\ tag' = host.plat
    /\ path' = "other"
    /\ tpc' = "done"
    /\ UNCHANGED <<host, pkgVars>>

(* ----------------------------- hosts ---------------------------------- *)

Majors == {1, 2, 3, 10}
Minors == {4, 9, 12, 17, 30, 31, 34, 35, 36, 100}
Versions == {<<>>} \cup {VersionText(a, b) : a \in Majors, b \in Minors}
LddOutcomes == {"ok", "FileNotFoundError", "SubprocessError", "PermissionError"}

Host(system, machine, ldd, marker, version, libc) ==
    [system |-> system, machine |-> machine, plat |-> DefaultPlat(system, machine),
     ldd |-> ldd, marker |-> marker, version |-> version, libc |-> libc]

LinuxHosts ==
    {Host("linux", m, "ok", k, v, l) :
        m \in {"x86_64", "aarch64"}, k \in {"glibc", "GLIBC", "none"}, v \in Versions, l \in BOOLEAN}
    \cup {Host("linux", m, o, "none", <<>>, l) :
        m \in {"x86_64", "aarch64"}, o \in LddOutcomes \ {"ok"}, l \in BOOLEAN}

OtherHosts ==
    {Host(sm[1], sm[2], "ok", "none", <<>>, FALSE) :
        sm \in {<<"darwin", "arm64">>, <<"darwin", "x86_64">>, <<"windows", "amd64">>,
                <<"windows", "x86">>, <<"plan9", "x86_64">>}}

TagInit ==
    /\ host \in LinuxHosts \cup OtherHosts
    /\ tpc = "start"
    /\ path = ""
    /\ tag = ""
    /\ fs = MkFs({})
    /\ pc = "idle"
    /\ err = ""
    /\ stack = <<>>
    /\ todo = {}
    /\ preexisting = "absent"

TagNext == LinuxLdd \/ LinuxTable \/ LinuxFallback \/ GetTagDarwin \/ GetTagWindows \/ GetTagOther

TagSpec == TagInit /\ [][TagNext]_vars

\* the packaging run is one sequential program: it keeps taking steps until it ends
FairSpec == Spec /\ WF_vars(PkgNext)

(* ------------------------ properties: the tag ------------------------- *)

RECURSIVE ParseNat(_)
ParseNat(digits) ==
    IF digits = <<>> THEN 0
    ELSE 10 * ParseNat(SubSeq(digits, 1, Len(digits) - 1)) + (digits[Len(digits)] - Zero)

DotAt(text) == CHOOSE i \in 1..Len(text) : text[i] = Dot

\* the version a major.minor text denotes: <<major, minor>>
ParseVersion(text) ==
    <<ParseNat(SubSeq(text, 1, DotAt(text) - 1)), ParseNat(SubSeq(text, DotAt(text) + 1, Len(text)))>>

NumAtLeast(v, t) == v[1] > t[1] \/ (v[1] = t[1] /\ v[2] >= t[2])

\* the highest threshold of {2.35, 2.34, 2.31, 2.17} not above v, else 2.12
NumericBaseline(v) ==
    IF NumAtLeast(v, <<2, 35>>) THEN <<2, 35>>
    ELSE IF NumAtLeast(v, <<2, 34>>) THEN <<2, 34>>
    ELSE IF NumAtLeast(v, <<2, 31>>) THEN <<2, 31>>
    ELSE IF NumAtLeast(v, <<2, 17>>) THEN <<2, 17>>
    ELSE <<2, 12>>

\* the <major>_<minor> and <arch> components of the Linux tags
TagBaseline(t) ==
    CASE t = "manylinux_2_35_x86_64" -> <<2, 35>>
      [] t = "manylinux_2_34_x86_64" -> <<2, 34>>
      [] t = "manylinux_2_31_x86_64" -> <<2, 31>>
      [] t = "manylinux_2_17_x86_64" -> <<2, 17>>
      [] t = "manylinux_2_12_x86_64" -> <<2, 12>>
      [] OTHER -> <<0, 0>>

TagArch(t) ==
    IF t \in {"manylinux_2_35_x86_64", "manylinux_2_34_x86_64", "manylinux_2_31_x86_64",
              "manylinux_2_17_x86_64", "manylinux_2_12_x86_64"}
    THEN "x86_64" ELSE ""

\* C1: on Linux, a version parsed from the linker's response gets the tag of the
\* highest threshold of {2.35, 2.34, 2.31, 2.17} that does not exceed it when the
\* versions are compared as numbers, and the 2_12 tag only below 2.17.
C1_NumericThreshold ==
    (tpc = "done" /\ path = "table") =>
        TagBaseline(tag) = NumericBaseline(ParseVersion(host.version))

\* C4: the resolver never raises, whatever the linker query does, and what it
\* returns is a tag.
C4_NeverRaises ==
    /\ tpc # "raised"
    /\ tpc = "done" => tag # ""

\* C9: on Linux the fallback is taken only if the query failed or its response holds
\* no major.minor number, and a response that holds one gets the tag the threshold
\* chain gives that version, whatever else the response says.
C9_FallbackOnlyWithoutVersion ==
    (tpc = "done" /\ host.system = "linux") =>
        /\ path \in {"heuristic", "default"} => (host.ldd # "ok" \/ host.version = <<>>)
        /\ (host.ldd = "ok" /\ host.version # <<>>) =>
              (path = "table" /\ tag = LinuxTableTag(host.version))

\* C10: on Linux the architecture component of the returned tag is the host's CPU
\* architecture, on every detection path.
C10_ArchIsHostArch ==
    (tpc = "done" /\ host.system = "linux") => TagArch(tag) = host.machine

(* ---------------------- properties: the copy -------------------------- *)

CopyDone == pc \in {"fix", "chmod", "done"}
Fresh == preexisting \in {"absent", "empty"}
Position(root, p) == SubSeq(p, Len(root) + 1, Len(p))
Tree(f, root) == [p \in {q \in DOMAIN f : IsPrefix(root, q)} |-> f[p]]
RelEntries(f, root) == {<<Position(root, p), f[p].kind>> : p \in Under(f, root)}

\* where a link at p with text t points, read from the link's own directory
LinkPointsAt(p, t) == normpath(IF t.abs THEN t.comps ELSE dirname(p) \o t.comps)

\* the links of the source tree whose relative target lies inside the source tree
InnerLinks(f) ==
    {p \in Under(f, lib_dir) :
        /\ f[p].kind = "link"
        /\ ~f[p].target.abs
        /\ IsPrefix(lib_dir, LinkPointsAt(p, f[p].target))}

\* C2: once the tree is copied, the destination entry of every source link whose
\* relative target lies inside the source tree is a link that, read from its own
\* directory, points at the same position under extdir as the source link's
\* target has under lib_dir.
C2_LinkPointsIntoDestination ==
    CopyDone =>
        \A p \in InnerLinks(fs) :
            LET d == extdir \o Position(lib_dir, p) IN
            /\ islink(fs, d)
            /\ LinkPointsAt(d, fs[d].target) =
                  extdir \o Position(lib_dir, LinkPointsAt(p, fs[p].target))

\* C3: no step of the packaging run changes an entry or a mode under lib_dir.
C3_SourceUntouched == [][Tree(fs', lib_dir) = Tree(fs, lib_dir)]_vars

CollisionPath == extdir \o <<SoLink>>

\* the step that handles the source link whose destination path is CollisionPath
CollisionStep ==
    /\ pc = "copy"
    /\ Head(stack).dst = extdir
    /\ SoLink \in Head(stack).items
    /\ \/ pc' = "raised"
       \/ stack' = <<>>
       \/ SoLink \notin stack'[Len(stack')].items

\* C5: when the destination path of a link already holds a symbolic link (to a
\* file, to a directory, or dangling) or a directory, the step removes it and
\* creates the new link without error, and nothing of the old entry is left.
C5_CollisionReplaced ==
    [][(CollisionStep /\ preexisting \in {"link_to_file", "link_to_dir", "dangling_link", "directory"})
        => /\ pc' # "raised"
           /\ {q \in DOMAIN fs' : IsPrefix(CollisionPath, q)} = {CollisionPath}
           /\ fs'[CollisionPath].kind = "link"
           /\ fs'[CollisionPath] # fs[CollisionPath]]_vars

ExecBits == 64 + 8 + 1
HasBits(m, bits) == BitOr(m, bits) = m

\* C6: after the run every file under extdir with a shared-library name has the
\* owner, group and other execute bits, and a permission step adds nothing but
\* those three bits to a mode.
C6_OnlyExecuteBitsAdded ==
    [][/\ pc = "chmod" =>
            \A p \in DOMAIN fs :
                fs'[p].mode \in {fs[p].mode, BitOr(fs[p].mode, ExecBits)}
       /\ pc' = "done" =>
            \A p \in Under(fs', extdir) :
                (~isdir(fs', p) /\ IsSharedLib(basename(p))) =>
                    HasBits(fs'[Resolve(fs', p).path].mode, ExecBits)]_vars

\* C7: from a source tree that is there and not empty and a fresh destination,
\* copy_all_files ends, without an error, and the entries under extdir are then
\* those under lib_dir, path by path and kind by kind, whatever the listing order.
C7_SamePathSet ==
    /\ []((Fresh /\ pc = "fix") => RelEntries(fs, extdir) = RelEntries(fs, lib_dir))
    /\ []((Fresh /\ pc = "raised") => (err = "FileNotFoundError" /\ stack = <<>>))
    /\ (Fresh /\ pc = "copy") ~> (pc = "fix")

C7_Witness ==
    /\ Fresh
    /\ pc = "fix"
    /\ {<<<<Sub>>, "dir">>, <<<<SoLink>>, "link">>, <<<<SoReal>>, "file">>} \subseteq RelEntries(fs, extdir)

\* C8: with lib_dir absent or empty, build_extension raises the missing-source
\* error and nothing at or under extdir is created or changed by then.
C8_MissingSourceBeforeMutation ==
    [][(pc = "start" /\ SourceMissing(fs))
        => /\ pc' = "raised"
           /\ err' = "FileNotFoundError"
           /\ Tree(fs', extdir) = Tree(fs, extdir)]_vars

C8_Witness ==
    /\ pc = "raised"
    /\ err = "FileNotFoundError"
    /\ SourceMissing(fs)
    /\ ~lexists(fs, extdir)

====
